---- MODULE Spec2Model ----
(***************************************************************************)
(* Model of the sensor-event pipeline of LGHacksV2.                        *)
(*                                                                         *)
(*   src/main.py          the Flask backend: the NGO and Event tables,     *)
(*                        match_ngos_for_event, notify_ngos and the        *)
(*                        /api/event, /admin/ngos, /admin/events and       *)
(*                        /admin/clear handlers; receive_event both as     *)
(*                        one step and statement by statement.             *)
(*   src/serialbridge.py  the serial bridge: choose_port, the opening of   *)
(*                        the port, and the read loop of run() with its    *)
(*                        rate limiter, send_to_backend and Ctrl-C.        *)
(*                                                                         *)
(* Python values are modelled as follows.  A dict is a function whose      *)
(* DOMAIN is the set of keys present.  None is the value NoneVal.  A str   *)
(* built by the program (",".join, str(int)) is a sequence of one-         *)
(* character strings, so that its content can be taken apart again.        *)
(***************************************************************************)
EXTENDS Integers, Sequences, FiniteSets, TLC

VARIABLES
    NGO,              \* rows of the NGO table, in rowid order
    Event,            \* rows of the Event table, in rowid order
    TWILIO_SID,       \* os.getenv("TWILIO_SID"): NoneVal when not configured
    call,             \* what the last request handler did and returned
    reqs,             \* the calls of receive_event that run step by step
    utcnow,           \* datetime.utcnow() of the backend
    last_event_time,  \* serialbridge.py: the rate limiter's watermark
    wall_ms,          \* serialbridge.py: int(time.time() * 1000)
    lines,            \* serialbridge.py: what the read loop did with each line
    posts,            \* serialbridge.py: payloads passed to send_to_backend
    pc,               \* serialbridge.py: where run() is
    port              \* serialbridge.py: what choose_port finds and returns

vars == <<NGO, Event, TWILIO_SID, call, reqs, utcnow, last_event_time, wall_ms,
          lines, posts, pc, port>>
serverVars == <<NGO, Event, TWILIO_SID, call, reqs, utcnow>>
bridgeVars == <<last_event_time, wall_ms, lines, posts, pc, port>>

(***************************************************************************)
(* Bounds of the model.                                                    *)
(***************************************************************************)
MaxNgos == 2         \* NGO rows in Spec
MaxEvents == 2       \* Event rows in Spec
MaxNgosMany == 11    \* NGO rows in SpecMany (more than MATCH_LIMIT)
MaxEventsMany == 1   \* Event rows in SpecMany
MaxLines == 3        \* serial lines read in SpecBridge
MaxPorts == 3        \* serial ports enumerated in SpecPort
MaxCalls == 2        \* calls of receive_event in SpecCalls
MaxCallsAdmin == 2   \* calls of receive_event in SpecAdmin
MaxResponders == 2   \* NGO rows on file in SpecCalls

(***************************************************************************)
(* Python values.                                                          *)
(***************************************************************************)
NoneVal == "<None>"

\* None where the other values are strs held as character sequences.
NoneStr == <<"<None>">>

\* Python truthiness of an optional str: None and "" are falsy.
Truthy(v) == v # NoneVal /\ v # ""

\* dict.get(k, default)
Get(d, k, default) == IF k \in DOMAIN d THEN d[k] ELSE default

Min(a, b) == IF a < b THEN a ELSE b

\* str(n) for an int n >= 0, as a sequence of digit characters.
Digit(d) == CASE d = 0 -> "0" [] d = 1 -> "1" [] d = 2 -> "2" [] d = 3 -> "3"
              [] d = 4 -> "4" [] d = 5 -> "5" [] d = 6 -> "6" [] d = 7 -> "7"
              [] d = 8 -> "8" [] d = 9 -> "9"

RECURSIVE str(_)
str(n) == IF n < 10 THEN <<Digit(n)>> ELSE str(n \div 10) \o <<Digit(n % 10)>>

CharVal(c) == CASE c = "0" -> 0 [] c = "1" -> 1 [] c = "2" -> 2 [] c = "3" -> 3
                [] c = "4" -> 4 [] c = "5" -> 5 [] c = "6" -> 6 [] c = "7" -> 7
                [] c = "8" -> 8 [] c = "9" -> 9

\* int(s) for a sequence of digit characters.
RECURSIVE to_int(_)
to_int(s) ==
    IF s = <<>> THEN 0
    ELSE 10 * to_int(SubSeq(s, 1, Len(s) - 1)) + CharVal(s[Len(s)])

\* ",".join(parts) for a sequence of strs.
RECURSIVE join(_)
join(parts) ==
    IF parts = <<>> THEN <<>>
    ELSE IF Len(parts) = 1 THEN parts[1]
    ELSE parts[1] \o <<",">> \o join(Tail(parts))

(***************************************************************************)
(* src/main.py: the tables.                                                *)
(***************************************************************************)
\* SQLite gives a new row of an INTEGER PRIMARY KEY table the id max(id) + 1.
next_id(rows) ==
    IF rows = <<>> THEN 1
    ELSE 1 + CHOOSE m \in {rows[i].id : i \in 1..Len(rows)} :
                 \A i \in 1..Len(rows) : rows[i].id <= m

\* Event(device_id=..., event_type=..., created_at=...) followed by add and
\* commit: matched_ngos has no default (NULL), status defaults to "new".
NewEvent(rows, device_id, event_type) ==
    [id |-> next_id(rows), device_id |-> device_id, event_type |-> event_type,
     matched_ngos |-> NoneStr, status |-> "new"]

\* Faulty variant: the row is inserted twice.
AddEventTwice(rows, ev) == Append(Append(rows, ev), ev)

\* db.session.add(ev); db.session.commit()
AddEvent(rows, ev) == Append(rows, ev)

MATCH_LIMIT == 10

\* Faulty variant: the limit of 3 that the comment on ngos[:10] speaks of.
match_first_three(ngos) ==
    IF ngos = <<>> THEN <<>> ELSE SubSeq(ngos, 1, Min(3, Len(ngos)))

\* Faulty variant: the ten responders registered last, ngos[-10:].
match_last_ten(ngos) ==
    IF ngos = <<>> THEN <<>>
    ELSE SubSeq(ngos, Len(ngos) - Min(MATCH_LIMIT, Len(ngos)) + 1, Len(ngos))

\* match_ngos_for_event: NGO.query.all(), then [] or ngos[:10].
match_ngos_for_event(ngos) ==
    IF ngos = <<>> THEN <<>>
    ELSE SubSeq(ngos, 1, Min(MATCH_LIMIT, Len(ngos)))


(***************************************************************************)
(* src/main.py: the notification system.                                   *)
(***************************************************************************)
\* The two f-string templates of notify_ngos, kept apart by their template
\* and the device_id interpolated into them.
AlertText(device_id) == [template |-> "ALERT", device_id |-> device_id]
NotificationText(device_id) == [template |-> "NOTIFICATION", device_id |-> device_id]

\* The text notify_ngos builds: it reads the 'event_type' key of the request
\* dict it is handed.
message_text(event) ==
    LET event_type == Get(event, "event_type", "unknown")
        device_id == Get(event, "device_id", "unknown")
    IN  IF event_type = "possible_encampment"
        THEN AlertText(device_id)
        ELSE NotificationText(device_id)

\* The provider calls made for one NGO: client.messages.create runs only
\* when TWILIO_SID and ngo.phone are truthy; outcome is what the provider
\* does ("ok", or "error" for an exception, which the except clause logs).
send_sms(sid, ngo, text, outcome) ==
    IF Truthy(sid) /\ Truthy(ngo.phone)
    THEN <<[to |-> ngo.phone, ngo_id |-> ngo.id, body |-> text, result |-> outcome]>>
    ELSE <<>>

\* The for loop of notify_ngos from position i on: msgs gets one entry per
\* NGO, sms lists the provider calls made.  An exception of the provider is
\* caught inside the iteration, so the loop always goes on to i + 1.
RECURSIVE notify_from(_, _, _, _, _)
notify_from(ngos, event, outcomes, sid, i) ==
    IF i > Len(ngos) THEN [msgs |-> <<>>, sms |-> <<>>]
    ELSE LET ngo == ngos[i]
             text == message_text(event)
             rest == notify_from(ngos, event, outcomes, sid, i + 1)
         IN  [msgs |-> <<[ngo |-> ngo.name, phone |-> ngo.phone, message |-> text]>>
                          \o rest.msgs,
              sms |-> send_sms(sid, ngo, text, outcomes[i]) \o rest.sms]

\* Faulty variant: no try / except, so the loop ends at the first provider
\* error with the entries built so far.
RECURSIVE notify_until_error(_, _, _, _, _)
notify_until_error(ngos, event, outcomes, sid, i) ==
    IF i > Len(ngos) THEN [msgs |-> <<>>, sms |-> <<>>]
    ELSE LET ngo == ngos[i]
             text == message_text(event)
             sent == send_sms(sid, ngo, text, outcomes[i])
             rest == IF sent # <<>> /\ outcomes[i] = "error"
                     THEN [msgs |-> <<>>, sms |-> <<>>]
                     ELSE notify_until_error(ngos, event, outcomes, sid, i + 1)
         IN  [msgs |-> <<[ngo |-> ngo.name, phone |-> ngo.phone, message |-> text]>>
                          \o rest.msgs,
              sms |-> sent \o rest.sms]

notify_ngos_uncaught(ngos, event, outcomes, sid) ==
    notify_until_error(ngos, event, outcomes, sid, 1)

\* Faulty variant: msgs.append sits after the provider call inside the try, so
\* an NGO whose send raised gets no entry.
RECURSIVE notify_entry_on_success(_, _, _, _, _)
notify_entry_on_success(ngos, event, outcomes, sid, i) ==
    IF i > Len(ngos) THEN [msgs |-> <<>>, sms |-> <<>>]
    ELSE LET ngo == ngos[i]
             text == message_text(event)
             sent == send_sms(sid, ngo, text, outcomes[i])
             rest == notify_entry_on_success(ngos, event, outcomes, sid, i + 1)
         IN  [msgs |-> (IF sent # <<>> /\ outcomes[i] = "error" THEN <<>>
                        ELSE <<[ngo |-> ngo.name, phone |-> ngo.phone, message |-> text]>>)
                          \o rest.msgs,
              sms |-> sent \o rest.sms]

notify_ngos_entry_on_success(ngos, event, outcomes, sid) ==
    notify_entry_on_success(ngos, event, outcomes, sid, 1)

notify_ngos(ngos, event, outcomes, sid) == notify_from(ngos, event, outcomes, sid, 1)

(***************************************************************************)
(* src/main.py: the handlers.                                              *)
(***************************************************************************)
\* data.get("event") or data.get("event_type") or "unknown"
extract_event_type(data) ==
    LET a == Get(data, "event", NoneVal)
        b == Get(data, "event_type", NoneVal)
    IN  IF Truthy(a) THEN a ELSE IF Truthy(b) THEN b ELSE "unknown"

\* Faulty variant: the status is set, the assignment of matched_ngos forgotten.
mark_notified_status_only(rows, id, ngos) ==
    [i \in 1..Len(rows) |->
        IF rows[i].id = id THEN [rows[i] EXCEPT !.status = "notified"] ELSE rows[i]]

\* ev.matched_ngos = ",".join([str(n.id) for n in ngos]); ev.status =
\* "notified"; db.session.commit(): the row of ev is rewritten in place.
mark_notified(rows, id, ngos) ==
    [i \in 1..Len(rows) |->
        IF rows[i].id = id
        THEN [rows[i] EXCEPT !.matched_ngos = join([k \in 1..Len(ngos) |-> str(ngos[k].id)]),
                             !.status = "notified"]
        ELSE rows[i]]

\* Faulty variant: every event notifies.
should_notify_any(event_type) == TRUE

\* should_notify = event_type == "possible_encampment"
should_notify(event_type) == event_type = "possible_encampment"

\* Faulty variant: the warning branch is never taken.
any_matched_always(ngos) == TRUE

\* if ngos: ... else: the warning branch
any_matched(ngos) == ngos # <<>>

\* POST /api/event.  data is request.get_json() or {}; outcomes[i] is what
\* the provider does when asked to send to the i-th matched NGO.
receive_event(data, outcomes) ==
    LET device_id == Get(data, "device_id", "unknown")
        event_type == extract_event_type(data)
        ev == NewEvent(Event, device_id, event_type)
        saved == AddEvent(Event, ev)
        notify == should_notify(event_type)
        ngos == match_ngos_for_event(NGO)
        sent == notify_ngos(ngos, data, outcomes, TWILIO_SID)
    IN  /\ Event' =
              IF notify /\ any_matched(ngos)
              THEN mark_notified(saved, ev.id, ngos)
              ELSE saved
        /\ call' =
              IF notify /\ any_matched(ngos)
              THEN [op |-> "receive_event", event_type |-> event_type,
                    matcher |-> 1, dispatcher |-> 1, matched |-> ngos,
                    sms |-> sent.sms,
                    response |-> [status |-> "ok", event_id |-> ev.id,
                                  notified |-> sent.msgs,
                                  message |-> [text |-> "Alert sent to NGOs", n |-> Len(ngos)]]]
              ELSE IF notify
              THEN [op |-> "receive_event", event_type |-> event_type,
                    matcher |-> 1, dispatcher |-> 0, matched |-> <<>>,
                    sms |-> <<>>,
                    response |-> [status |-> "warning", event_id |-> ev.id,
                                  message |-> [text |-> "Event saved but no NGOs registered"]]]
              ELSE [op |-> "receive_event", event_type |-> event_type,
                    matcher |-> 0, dispatcher |-> 0, matched |-> <<>>,
                    sms |-> <<>>,
                    response |-> [status |-> "ok", event_id |-> ev.id,
                                  message |-> [text |-> "Event logged"]]]
        /\ UNCHANGED <<NGO, TWILIO_SID, reqs, utcnow, bridgeVars>>

\* POST /admin/ngos.  j is the JSON form; j['name'] is required.
ngos_post(j) ==
    LET n == [id |-> next_id(NGO), name |-> j["name"], phone |-> Get(j, "phone", NoneVal)]
    IN  /\ "name" \in DOMAIN j
        /\ NGO' = Append(NGO, n)
        /\ call' = [op |-> "ngos", response |-> [id |-> n.id, name |-> n.name]]
        /\ UNCHANGED <<Event, TWILIO_SID, reqs, utcnow, bridgeVars>>

\* Faulty variant: only the events nobody was notified of are deleted.
query_delete_new(rows) == SelectSeq(rows, LAMBDA e : e.status # "new")

\* What Event.query.delete() leaves in the table.
query_delete(rows) == <<>>

\* POST /admin/clear: Event.query.delete() returns the number of rows deleted.
clear_events ==
    LET num_deleted == Len(Event) - Len(query_delete(Event))
    IN  /\ Event' = query_delete(Event)
        /\ call' = [op |-> "clear_events",
                    response |-> [status |-> "ok", deleted |-> num_deleted]]
        /\ UNCHANGED <<NGO, TWILIO_SID, reqs, utcnow, bridgeVars>>

LIST_LIMIT == 50

\* datetime.isoformat(): the instant as text.
isoformat(t) == <<"T">> \o str(t)

\* The rows in the order of ORDER BY created_at DESC: the latest row first.
RECURSIVE order_by_created_at_desc(_)
order_by_created_at_desc(rows) ==
    IF rows = <<>> THEN <<>>
    ELSE LET k == CHOOSE i \in 1..Len(rows) :
                      \A j \in 1..Len(rows) :
                          \/ rows[j].created_at < rows[i].created_at
                          \/ (rows[j].created_at = rows[i].created_at /\ i <= j)
             rest == [j \in 1..(Len(rows) - 1) |-> IF j < k THEN rows[j] ELSE rows[j + 1]]
         IN  <<rows[k]>> \o order_by_created_at_desc(rest)

\* GET /admin/events: the 50 latest events, with the columns it returns.
list_events ==
    LET ordered == order_by_created_at_desc(Event)
        evs == SubSeq(ordered, 1, Min(LIST_LIMIT, Len(ordered)))
    IN  /\ call' = [op |-> "list_events",
                    response |-> [k \in 1..Len(evs) |->
                        [id |-> evs[k].id, device_id |-> evs[k].device_id,
                         event_type |-> evs[k].event_type,
                         created_at |-> isoformat(evs[k].created_at),
                         status |-> evs[k].status,
                         matched_ngos |-> evs[k].matched_ngos]]]
        /\ UNCHANGED <<NGO, Event, TWILIO_SID, reqs, utcnow, bridgeVars>>

(***************************************************************************)
(* src/main.py: receive_event statement by statement, so that calls can    *)
(* run side by side.  reqs[r] is the r-th call: pc says which statement it *)
(* is at, timestamp, ev_id, ngos and i are its local variables (ev_id the  *)
(* primary key of its ev, i the position of the for loop of notify_ngos),  *)
(* contacted lists the responders the provider was asked to reach.         *)
(***************************************************************************)
\* The row of Event(..., created_at=timestamp); by is the call that inserts
\* it, which is kept for the properties and is no column of the table.
StampedEvent(rows, device_id, event_type, timestamp, by) ==
    LET ev == NewEvent(rows, device_id, event_type)
    IN  [id |-> ev.id, device_id |-> ev.device_id, event_type |-> ev.event_type,
         matched_ngos |-> ev.matched_ngos, status |-> ev.status,
         created_at |-> timestamp, by |-> by]

\* Lines 102-108: the body is read and timestamp = datetime.utcnow(); the
\* clock moves on with every reading.
begin(data) ==
    /\ reqs' = Append(reqs, [pc |-> "persist", data |-> data,
                             event_type |-> extract_event_type(data),
                             timestamp |-> utcnow, ev_id |-> 0, ngos |-> <<>>,
                             i |-> 1, contacted |-> <<>>, response |-> "none"])
    /\ utcnow' = utcnow + 1
    /\ UNCHANGED <<NGO, Event, TWILIO_SID, call, bridgeVars>>

\* Lines 113-125: ev is added and committed; a call that does not notify
\* answers 'Event logged'.
persist(r) ==
    LET q == reqs[r]
        ev == StampedEvent(Event, Get(q.data, "device_id", "unknown"), q.event_type,
                           q.timestamp, r)
        notify == should_notify(q.event_type)
    IN  /\ q.pc = "persist"
        /\ Event' = AddEvent(Event, ev)
        /\ reqs' = [reqs EXCEPT ![r].ev_id = ev.id,
                                ![r].pc = IF notify THEN "match" ELSE "done",
                                ![r].response = IF notify THEN "none" ELSE "logged"]
        /\ UNCHANGED <<NGO, TWILIO_SID, call, utcnow, bridgeVars>>

\* Lines 129-131: ngos = match_ngos_for_event(data); without responders the
\* call answers with the warning.
match(r) ==
    LET q == reqs[r]
        ngos == match_ngos_for_event(NGO)
    IN  /\ q.pc = "match"
        /\ reqs' = [reqs EXCEPT ![r].ngos = ngos,
                                ![r].pc = IF any_matched(ngos) THEN "notify" ELSE "done",
                                ![r].response = IF any_matched(ngos) THEN "none"
                                                ELSE "warning"]
        /\ UNCHANGED <<NGO, Event, TWILIO_SID, call, utcnow, bridgeVars>>

\* Faulty variant: the loop is left after its first iteration.
loop_done_after_first(i, ngos) == i > 1

\* The for loop of notify_ngos has gone through ngos.
loop_done(i, ngos) == i > Len(ngos)

\* One iteration of the for loop of notify_ngos (lines 70-94): the provider
\* is asked to reach ngos[i]; whatever it does, the loop goes on.
send(r, outcome) ==
    LET q == reqs[r]
        sms == send_sms(TWILIO_SID, q.ngos[q.i], message_text(q.data), outcome)
    IN  /\ q.pc = "notify"
        /\ ~loop_done(q.i, q.ngos)
        /\ reqs' = [reqs EXCEPT ![r].i = q.i + 1,
                                ![r].contacted =
                                    q.contacted \o [k \in 1..Len(sms) |-> sms[k].ngo_id]]
        /\ UNCHANGED <<NGO, Event, TWILIO_SID, call, utcnow, bridgeVars>>

\* Lines 136-138: UPDATE event SET matched_ngos, status WHERE id = ev.id and
\* commit.  The statement addresses the row by its primary key alone; when
\* no row has that key any more the commit raises StaleDataError and the
\* call answers 500.
update(r) ==
    LET q == reqs[r]
        found == \E k \in 1..Len(Event) : Event[k].id = q.ev_id
    IN  /\ q.pc = "notify"
        /\ loop_done(q.i, q.ngos)
        /\ Event' = IF found THEN mark_notified(Event, q.ev_id, q.ngos) ELSE Event
        /\ reqs' = [reqs EXCEPT ![r].pc = "done",
                                ![r].response = IF found THEN "ok" ELSE "error"]
        /\ UNCHANGED <<NGO, TWILIO_SID, call, utcnow, bridgeVars>>

\* The call ends where it is: an exception nothing catches, or the death of
\* the worker that runs it.
crash(r) ==
    /\ reqs[r].pc \in {"persist", "match", "notify"}
    /\ reqs' = [reqs EXCEPT ![r].pc = "crashed"]
    /\ UNCHANGED <<NGO, Event, TWILIO_SID, call, utcnow, bridgeVars>>


(***************************************************************************)
(* The requests the handlers are given.                                    *)
(***************************************************************************)
EventNames == {"motion", "possible_encampment"}

\* All dicts with keys among K whose values come from V[k].
Dicts(K, V) == UNION {[D -> UNION {V[k] : k \in D}] : D \in SUBSET K}

\* JSON bodies of POST /api/event: the keys event and event_type may each be
\* missing, and event_type may also be the empty string.
Requests ==
    {d \in Dicts({"device_id", "event", "event_type"},
                 [device_id |-> {"D1"}, event |-> EventNames,
                  event_type |-> EventNames \cup {""}]) :
        /\ "device_id" \in DOMAIN d /\ d["device_id"] = "D1"
        /\ "event" \in DOMAIN d => d["event"] \in EventNames
        /\ "event_type" \in DOMAIN d => d["event_type"] \in EventNames \cup {""}}

ProviderOutcomes == {"ok", "error"}

\* JSON bodies of POST /admin/ngos.
NgoForms ==
    {[name |-> n] : n \in {"Shelter A", "Shelter B"}}
    \cup {[name |-> n, phone |-> "+15550100"] : n \in {"Shelter A", "Shelter B"}}

(***************************************************************************)
(* src/serialbridge.py: the read loop of run().                            *)
(***************************************************************************)
MIN_INTERVAL == 2
MIN_INTERVAL_MS == MIN_INTERVAL * 1000
DEFAULT_DEVICE_ID == "ELEGOO_PROTO_01"

\* bytes.decode(errors="ignore").strip(): a line of white space only, and the
\* b"" of a read that timed out, become "".
strip(text) == IF text \in {"", "  "} THEN "" ELSE text

\* json.loads(line): parsed says what the text of the line is, "no" (not
\* JSON: JSONDecodeError), "object" (a JSON object: a dict, obj) or "scalar"
\* (any other JSON value: a number, a string, a list, null, true).
json_loads(line) ==
    [decoded |-> line.parsed # "no", is_dict |-> line.parsed = "object", value |-> line.obj]

\* dict.setdefault(k, v)
setdefault(d, k, v) ==
    IF k \in DOMAIN d THEN d
    ELSE [x \in DOMAIN d \cup {k} |-> IF x = k THEN v ELSE d[x]]

\* The payload the loop builds from a non-empty line: the parsed value, or
\* {"raw": line} on JSONDecodeError.  raised is the AttributeError of
\* payload.setdefault when the parsed value is no dict.
build_payload(line, now) ==
    LET j == json_loads(line)
        payload == IF j.decoded THEN j.value ELSE [raw |-> strip(line.text)]
    IN  IF j.decoded /\ ~j.is_dict
        THEN [raised |-> TRUE, payload |-> <<>>]
        ELSE [raised |-> FALSE,
              payload |-> setdefault(setdefault(payload, "device_id", DEFAULT_DEVICE_ID),
                                     "timestamp_ms", now)]

\* The rate limiter's test: last_event_time > 0 and
\* (current_time - last_event_time) < (MIN_INTERVAL * 1000)
too_soon(last, current_time) ==
    last > 0 /\ (current_time - last) < MIN_INTERVAL_MS

\* Faulty variant: a delivery that failed is tried a second time.
send_to_backend_retry(sent, payload, delivery) ==
    IF delivery = "error"
    THEN Append(Append(sent, [payload |-> payload, result |-> "error"]),
                [payload |-> payload, result |-> "ok"])
    ELSE Append(sent, [payload |-> payload, result |-> delivery])

\* send_to_backend(payload): one requests.post; an exception or a timeout is
\* caught and printed, and nothing is returned.  sent is the sequence of the
\* calls of requests.post made so far.
send_to_backend(sent, payload, delivery) ==
    Append(sent, [payload |-> payload, result |-> delivery])

\* Faulty variant: the watermark moves only when the delivery went through.
watermark_on_success(last, current_time, delivery) ==
    IF delivery = "ok" THEN current_time ELSE last

\* last_event_time = current_time, assigned before send_to_backend is called.
watermark_after(last, current_time, delivery) == current_time

\* One iteration of the while loop of run(): line is what ser.readline()
\* returned, dt the time that passed since the previous iteration, delivery
\* what requests.post does if it is called ("ok", or "error" for an exception
\* or a timeout, which send_to_backend catches and prints).
read_line(line, dt, delivery) ==
    LET now == wall_ms + dt
        text == strip(line.text)
        built == build_payload(line, now)
        current_time == built.payload["timestamp_ms"]
    IN  /\ pc = "reading"
        /\ UNCHANGED <<pc, port>>
        /\ IF text = ""
           THEN \* if not line: continue
                /\ lines' = Append(lines, [line |-> line, outcome |-> "skipped", payload |-> <<>>])
                /\ wall_ms' = now
                /\ UNCHANGED <<last_event_time, posts>>
           ELSE IF built.raised
           THEN \* except Exception: print, time.sleep(1)
                /\ lines' = Append(lines, [line |-> line, outcome |-> "error", payload |-> <<>>])
                /\ wall_ms' = now + 1000
                /\ UNCHANGED <<last_event_time, posts>>
           ELSE IF too_soon(last_event_time, current_time)
           THEN \* (Skipped - too soon after last event)
                /\ lines' = Append(lines, [line |-> line, outcome |-> "dropped",
                                           payload |-> built.payload])
                /\ wall_ms' = now
                /\ UNCHANGED <<last_event_time, posts>>
           ELSE /\ last_event_time' = watermark_after(last_event_time, current_time, delivery)
                /\ posts' = send_to_backend(posts, built.payload, delivery)
                /\ lines' = Append(lines, [line |-> line, outcome |-> "forwarded",
                                           payload |-> built.payload])
                /\ wall_ms' = now

\* An iteration of the loop that a KeyboardInterrupt (Ctrl-C) cuts short.
\* at says where it arrives.  "reading": in ser.readline() or anywhere else
\* in the try body before send_to_backend; the except KeyboardInterrupt
\* clause prints and breaks, and the line is lost.  "delivering": inside
\* requests.post; send_to_backend catches Exception only, so the interrupt
\* reaches the same clause, after last_event_time was assigned.  "backoff":
\* inside the time.sleep(1) of the except Exception clause; that sleep is not
\* in the try body, so no clause of the try statement handles the interrupt
\* and it leaves run() as an uncaught exception.
interrupted(line, dt, at) ==
    LET now == wall_ms + dt
        text == strip(line.text)
        built == build_payload(line, now)
        current_time == built.payload["timestamp_ms"]
    IN  /\ pc = "reading"
        /\ UNCHANGED port
        /\ CASE at = "reading" ->
                  /\ pc' = "stopped"
                  /\ UNCHANGED <<last_event_time, wall_ms, posts, lines>>
             [] at = "delivering" ->
                  /\ text # ""
                  /\ ~built.raised
                  /\ ~too_soon(last_event_time, current_time)
                  /\ last_event_time' = watermark_after(last_event_time, current_time,
                                                        "interrupted")
                  /\ posts' = send_to_backend(posts, built.payload, "interrupted")
                  /\ lines' = Append(lines, [line |-> line, outcome |-> "forwarded",
                                             payload |-> built.payload])
                  /\ wall_ms' = now
                  /\ pc' = "stopped"
             [] at = "backoff" ->
                  /\ text # ""
                  /\ built.raised
                  /\ lines' = Append(lines, [line |-> line, outcome |-> "error",
                                             payload |-> <<>>])
                  /\ wall_ms' = now
                  /\ UNCHANGED <<last_event_time, posts>>
                  /\ pc' = "killed"

(***************************************************************************)
(* src/serialbridge.py: choose_port and the start of run().                *)
(***************************************************************************)
SERIAL_PORT == "/dev/cu.usbmodem101"

\* str.strip() and str.lower() on a str held as a character sequence.
RECURSIVE lstrip(_)
lstrip(s) == IF s # <<>> /\ Head(s) = " " THEN lstrip(Tail(s)) ELSE s

RECURSIVE rstrip(_)
rstrip(s) ==
    IF s # <<>> /\ s[Len(s)] = " " THEN rstrip(SubSeq(s, 1, Len(s) - 1)) ELSE s

strip_str(s) == rstrip(lstrip(s))

lower(s) ==
    [k \in 1..Len(s) |-> CASE s[k] = "Q" -> "q" [] s[k] = "X" -> "x" [] OTHER -> s[k]]

\* int(choice): an optional sign and then digits; raised is the ValueError.
IsDigit(c) == c \in {"0", "1", "2", "3", "4", "5", "6", "7", "8", "9"}

int(s) ==
    LET signed == s # <<>> /\ Head(s) \in {"+", "-"}
        digits == IF signed THEN Tail(s) ELSE s
    IN  IF digits = <<>> \/ \E k \in 1..Len(digits) : ~IsDigit(digits[k])
        THEN [raised |-> TRUE, value |-> 0]
        ELSE [raised |-> FALSE,
              value |-> IF signed /\ Head(s) = "-" THEN 0 - to_int(digits)
                        ELSE to_int(digits)]

Max(a, b) == IF a > b THEN a ELSE b

\* Faulty variant: the index is taken as typed.
clamp_none(n, idx) == idx

\* idx = max(1, min(len(candidates), idx))
clamp(n, idx) == Max(1, Min(n, idx))

\* candidates[i] for a Python index i (0-based, negative from the end);
\* raised is the IndexError.
item(candidates, i) ==
    LET n == Len(candidates)
    IN  IF i >= 0 /\ i < n THEN [raised |-> FALSE, value |-> candidates[i + 1]]
        ELSE IF i < 0 /\ i >= 0 - n THEN [raised |-> FALSE, value |-> candidates[n + i + 1]]
        ELSE [raised |-> TRUE, value |-> NoneVal]

\* choose_port(preferred).  env is what it finds: available, whether
\* serial.Serial(preferred) opens; ports, the devices list_ports.comports()
\* enumerates; tty, sys.stdin.isatty(); input, what input() does (the text
\* typed, or an exception such as EOFError).
choose_port(preferred, env) ==
    LET candidates == env.ports
        choice == strip_str(env.input.text)
        parsed == int(choice)
        idx == IF choice = <<>> THEN 1
               ELSE IF parsed.raised THEN 1
               ELSE parsed.value
        picked == item(candidates, clamp(Len(candidates), idx) - 1)
    IN  IF preferred # NoneVal /\ env.available THEN preferred
        ELSE IF candidates = <<>> THEN NoneVal
        ELSE IF ~env.tty THEN candidates[1]
        ELSE IF env.input.raises THEN candidates[1]
        ELSE IF lower(choice) = <<"q">> THEN NoneVal
        ELSE IF picked.raised THEN candidates[1]
        ELSE picked.value

\* chosen = choose_port(SERIAL_PORT); if not chosen: return
run_choose ==
    /\ pc = "start"
    /\ port' = [port EXCEPT !.chosen = choose_port(port.preferred, port)]
    /\ pc' = IF port'.chosen = NoneVal THEN "exited" ELSE "opening"
    /\ UNCHANGED <<last_event_time, wall_ms, lines, posts>>

\* ser = serial.Serial(chosen, BAUD, timeout=1): on an exception run()
\* prints and returns; otherwise time.sleep(2) and the loop starts.
run_open(opens) ==
    /\ pc = "opening"
    /\ pc' = IF opens THEN "reading" ELSE "exited"
    /\ wall_ms' = IF opens THEN wall_ms + 2000 ELSE wall_ms
    /\ UNCHANGED <<last_event_time, lines, posts, port>>

(***************************************************************************)
(* The lines the serial port delivers.                                     *)
(***************************************************************************)
\* timestamp_ms values a device reports (its millis() clock starts at 0).
Timestamps == {-1000, 0, 1, 1999, 2000, 4000}

\* The wall clock when the bridge starts, and how far it moves per iteration.
WallStart == 100000
Elapsed == {500, 2000}

JsonObjects ==
    {[event |-> "motion", timestamp_ms |-> t] : t \in Timestamps}
    \cup {[event |-> "motion"]}

SerialLines ==
    {[text |-> t, parsed |-> "no", obj |-> <<>>] : t \in {"", "  ", "READY"}}
    \cup {[text |-> "42", parsed |-> "scalar", obj |-> <<>>]}
    \cup {[text |-> "{..}", parsed |-> "object", obj |-> o] : o \in JsonObjects}

DeliveryOutcomes == {"ok", "error"}

ServerInit ==
    /\ NGO = <<>>
    /\ Event = <<>>
    /\ TWILIO_SID \in {NoneVal, "AC0123"}
    /\ call = [op |-> "none"]

\* The module globals of serialbridge.py as run() finds them.
BridgeIdle ==
    /\ last_event_time = 0
    /\ wall_ms = WallStart
    /\ lines = <<>>
    /\ posts = <<>>

\* The devices list_ports.comports() may enumerate, in its order.
Device(k) == CASE k = 1 -> "/dev/cu.usbmodem101" [] k = 2 -> "/dev/cu.usbserial-1420"
               [] k = 3 -> "/dev/cu.Bluetooth-Incoming-Port" [] k = 4 -> "/dev/ttyUSB0"
               [] k = 5 -> "/dev/ttyACM0" [] OTHER -> "/dev/ttyS0"

PortLists == {[k \in 1..n |-> Device(k)] : n \in 0..MaxPorts}

\* What the user types at the prompt of choose_port.
Typed ==
    {<<>>, <<" ">>, <<"q">>, <<"Q">>, <<" ", "q", " ">>, <<"x">>, <<"q", "q">>,
     <<"0">>, <<"1">>, <<"2">>, <<"3">>, <<"9">>, <<"1", "2">>, <<"-", "1">>,
     <<"+", "2">>, <<"2", "x">>}

PortInputs ==
    {[raises |-> FALSE, text |-> t] : t \in Typed}
    \cup {[raises |-> TRUE, text |-> <<>>]}

\* What choose_port may find.
PortEnvs ==
    {[preferred |-> p, available |-> a, ports |-> l, tty |-> y, input |-> i,
      chosen |-> NoneVal] :
        p \in {NoneVal, SERIAL_PORT}, a \in BOOLEAN, l \in PortLists,
        y \in BOOLEAN, i \in PortInputs}

\* run() has opened SERIAL_PORT and enters its loop.
Connected ==
    /\ pc = "reading"
    /\ port = [preferred |-> SERIAL_PORT, available |-> TRUE, ports |-> <<>>,
               tty |-> FALSE, input |-> [raises |-> TRUE, text |-> <<>>],
               chosen |-> SERIAL_PORT]

\* No call of receive_event is under way.
NoCalls == reqs = <<>> /\ utcnow = 0

Init == ServerInit /\ NoCalls /\ BridgeIdle /\ Connected

\* The provider is only asked when the request is one that notifies.
ProviderRuns(data) ==
    LET n == Len(match_ngos_for_event(NGO))
    IN  IF extract_event_type(data) = "possible_encampment"
        THEN [1..n -> ProviderOutcomes]
        ELSE {[i \in 1..n |-> "ok"]}

Ingest ==
    /\ Len(Event) < MaxEvents
    /\ \E data \in Requests : \E outcomes \in ProviderRuns(data) :
            receive_event(data, outcomes)

CreateResponder ==
    /\ Len(NGO) < MaxNgos
    /\ \E j \in NgoForms : ngos_post(j)

ClearEvents == clear_events

Next == Ingest \/ CreateResponder \/ ClearEvents

Spec == Init /\ [][Next]_vars

(***************************************************************************)
(* The bridge on its own: the backend tables stay as they are.             *)
(***************************************************************************)
ReadLine ==
    /\ Len(lines) < MaxLines
    /\ \E line \in SerialLines, dt \in Elapsed, delivery \in DeliveryOutcomes :
          read_line(line, dt, delivery)
    /\ UNCHANGED serverVars

\* Ctrl-C while the loop runs.
Interrupt ==
    /\ Len(lines) < MaxLines
    /\ \E line \in SerialLines, dt \in Elapsed, at \in {"reading", "delivering", "backoff"} :
          interrupted(line, dt, at)
    /\ UNCHANGED serverVars

NextBridge == ReadLine \/ Interrupt

\* The backend has just started, with no provider configured.
InitBridge == Init /\ TWILIO_SID = NoneVal

SpecBridge == InitBridge /\ [][NextBridge]_vars

(***************************************************************************)
(* The bridge from the call of run() to the start of its loop.             *)
(***************************************************************************)
ChoosePort == run_choose /\ UNCHANGED serverVars

OpenPort == (\E opens \in BOOLEAN : run_open(opens)) /\ UNCHANGED serverVars

NextPort == ChoosePort \/ OpenPort

InitPort ==
    /\ ServerInit
    /\ NoCalls
    /\ TWILIO_SID = NoneVal
    /\ BridgeIdle
    /\ pc = "start"
    /\ port \in PortEnvs

SpecPort == InitPort /\ [][NextPort]_vars

(***************************************************************************)
(* The backend with more responders on file than one alert may reach.      *)
(* The responders all have a phone number; the provider, when configured,  *)
(* serves them all, fails them all, or fails exactly one of them.          *)
(***************************************************************************)
NgoFormsMany == {[name |-> "Shelter A", phone |-> "+15550100"]}

ProviderRunsMany(data) ==
    LET n == Len(match_ngos_for_event(NGO))
    IN  IF extract_event_type(data) = "possible_encampment"
        THEN {[i \in 1..n |-> r] : r \in ProviderOutcomes}
             \cup {[i \in 1..n |-> IF i = k THEN "error" ELSE "ok"] : k \in 1..n}
        ELSE {[i \in 1..n |-> "ok"]}

IngestMany ==
    /\ Len(Event) < MaxEventsMany
    /\ \E data \in Requests : \E outcomes \in ProviderRunsMany(data) :
            receive_event(data, outcomes)

CreateResponderMany ==
    /\ Len(NGO) < MaxNgosMany
    /\ \E j \in NgoFormsMany : ngos_post(j)

NextMany == IngestMany \/ CreateResponderMany \/ ClearEvents

SpecMany == Init /\ [][NextMany]_vars

(***************************************************************************)
(* The backend serving its calls side by side (the development server of   *)
(* app.run handles each request in a thread of its own).  The responders   *)
(* are on file before the calls arrive and the provider is configured.     *)
(***************************************************************************)
\* The bodies the bridge posts: they carry the device's own timestamp_ms.
RequestsCalls ==
    {[device_id |-> "D1", event |-> e, timestamp_ms |-> 4000] : e \in EventNames}

\* The NGO table after n calls of POST /admin/ngos.
Registered(n) == [k \in 1..n |-> [id |-> k, name |-> "Shelter A", phone |-> "+15550100"]]

Begin == Len(reqs) < MaxCalls /\ \E data \in RequestsCalls : begin(data)

Persist == \E r \in 1..Len(reqs) : persist(r)

Match == \E r \in 1..Len(reqs) : match(r)

Send == \E r \in 1..Len(reqs), outcome \in ProviderOutcomes : send(r, outcome)

Update == \E r \in 1..Len(reqs) : update(r)

Crash == \E r \in 1..Len(reqs) : crash(r)

NextCalls ==
    Begin \/ Persist \/ Match \/ Send \/ Update \/ Crash \/ ClearEvents

InitCalls ==
    /\ NGO \in {Registered(0), Registered(MaxResponders)}
    /\ Event = <<>>
    /\ TWILIO_SID = "AC0123"
    /\ call = [op |-> "none"]
    /\ NoCalls
    /\ BridgeIdle
    /\ Connected

SpecCalls == InitCalls /\ [][NextCalls]_vars

(***************************************************************************)
(* The backend with its admin at work: events arrive one call at a time,   *)
(* a call may end anywhere, and the events are listed and cleared between  *)
(* the statements of a call.                                               *)
(***************************************************************************)
BeginAdmin ==
    /\ Len(reqs) < MaxCallsAdmin
    /\ \A r \in 1..Len(reqs) : reqs[r].pc \in {"done", "crashed"}
    /\ \E data \in RequestsCalls : begin(data)

ListEvents == list_events

NextAdmin ==
    BeginAdmin \/ Persist \/ Match \/ Send \/ Update \/ Crash \/ ClearEvents
    \/ ListEvents

SpecAdmin == InitCalls /\ [][NextAdmin]_vars

(***************************************************************************)
(* Reading the stored and returned values back.                            *)
(***************************************************************************)
\* s.split(","), with cur the piece being read.
RECURSIVE split(_, _)
split(s, cur) ==
    IF s = <<>> THEN <<cur>>
    ELSE IF Head(s) = "," THEN <<cur>> \o split(Tail(s), <<>>)
    ELSE split(Tail(s), Append(cur, Head(s)))

\* The responder IDs a matched_ngos column lists: none for NULL and for "".
matched_ids(column) ==
    IF column = NoneStr \/ column = <<>> THEN <<>>
    ELSE LET pieces == split(column, <<>>)
         IN  [k \in 1..Len(pieces) |-> to_int(pieces[k])]

\* The stored rows with a given id.
RowsWithId(id) == {i \in 1..Len(Event) : Event[i].id = id}

IsIngest == call.op = "receive_event"
Critical == IsIngest /\ call.event_type = "possible_encampment"

(***************************************************************************)
(* C1: an ingest whose extracted event type is not "possible_encampment"   *)
(* invokes neither the Matcher nor the Dispatcher, answers with status ok  *)
(* and leaves its Event stored with status new and no matched responders,  *)
(* whatever responders are on file.                                        *)
(***************************************************************************)
C1_LoggedOnly ==
    (IsIngest /\ call.event_type # "possible_encampment") =>
        /\ call.matcher = 0
        /\ call.dispatcher = 0
        /\ call.sms = <<>>
        /\ call.response.status = "ok"
        /\ "notified" \notin DOMAIN call.response
        /\ RowsWithId(call.response.event_id) # {}
        /\ \A i \in RowsWithId(call.response.event_id) :
              /\ Event[i].event_type = call.event_type
              /\ Event[i].status = "new"
              /\ matched_ids(Event[i].matched_ngos) = <<>>

C1_Witness ==
    /\ IsIngest
    /\ call.event_type = "motion"
    /\ Len(NGO) = MaxNgos
    /\ TWILIO_SID # NoneVal

C3_NotifiedHasMatches ==
    \A i \in 1..Len(Event) :
        Event[i].status = "notified" => 
            /\ Event[i].matched_ngos # NoneStr
            /\ Len(matched_ids(Event[i].matched_ngos)) >= 1

C3_Witness ==
    /\ call.op = "ngos"
    /\ \E i, j \in 1..Len(Event) :
          /\ Event[i].status = "notified"
          /\ Event[j].status = "new"
          /\ Event[j].event_type = "possible_encampment"

(***************************************************************************)
(* C4: a freshly started bridge reads two non-empty lines carrying the     *)
(* device timestamps t1 and t2, both >= 0: if t2 - t1 < MIN_INTERVAL_MS    *)
(* the second payload is dropped and only the first is posted, otherwise   *)
(* both are forwarded.                                                     *)
(***************************************************************************)
HasDeviceTimestamp(line) ==
    line.parsed = "object" /\ "timestamp_ms" \in DOMAIN line.obj

C4_RateLimitTwoLines ==
    (/\ Len(lines) = 2
     /\ HasDeviceTimestamp(lines[1].line)
     /\ HasDeviceTimestamp(lines[2].line)
     /\ lines[1].line.obj["timestamp_ms"] >= 0
     /\ lines[2].line.obj["timestamp_ms"] >= 0) =>
        LET t1 == lines[1].line.obj["timestamp_ms"]
            t2 == lines[2].line.obj["timestamp_ms"]
        IN  IF t2 - t1 < MIN_INTERVAL_MS
            THEN /\ lines[2].outcome = "dropped"
                 /\ Len(posts) = 1
                 /\ posts[1].payload["timestamp_ms"] = t1
            ELSE /\ lines[1].outcome = "forwarded"
                 /\ lines[2].outcome = "forwarded"
                 /\ Len(posts) = 2

(***************************************************************************)
(* C5: when ingest notifies responders for an event whose extracted type   *)
(* is "possible_encampment", every message built for it uses the           *)
(* high-urgency template; the informational template appears only when     *)
(* the extracted type is something else.                                   *)
(***************************************************************************)
C5_AlertTemplate ==
    (Critical /\ call.dispatcher = 1) =>
        /\ \A k \in 1..Len(call.response.notified) :
              call.response.notified[k].message.template = "ALERT"
        /\ \A k \in 1..Len(call.sms) : call.sms[k].body.template = "ALERT"

(***************************************************************************)
(* The provider calls of the last dispatch, by position of the responder   *)
(* in the list handed to notify_ngos.                                      *)
(***************************************************************************)
Dispatched == IsIngest /\ call.dispatcher = 1

SmsFor(i) == {k \in 1..Len(call.sms) : call.sms[k].ngo_id = call.matched[i].id}

SendFailed(i) == \E k \in SmsFor(i) : call.sms[k].result = "error"
SendSucceeded(i) == \E k \in SmsFor(i) : call.sms[k].result = "ok"

PartialFailure(a, b) ==
    /\ Dispatched
    /\ a \in 1..Len(call.matched)
    /\ b \in 1..Len(call.matched)
    /\ SendFailed(a)
    /\ SendSucceeded(b)

Positions == 1..MATCH_LIMIT

C7_OneEntryPerResponder ==
    Dispatched =>
        /\ call.response.status = "ok"
        /\ Len(call.response.notified) = Len(call.matched)
        /\ \A i \in 1..Len(call.matched) :
              /\ call.response.notified[i].ngo = call.matched[i].name
              /\ call.response.notified[i].phone = call.matched[i].phone
              /\ (Truthy(TWILIO_SID) /\ Truthy(call.matched[i].phone))
                    => Cardinality(SmsFor(i)) = 1
              /\ ~(Truthy(TWILIO_SID) /\ Truthy(call.matched[i].phone))
                    => SmsFor(i) = {}
        /\ \A k, l \in 1..Len(call.sms) :
              k < l => call.sms[k].ngo_id < call.sms[l].ngo_id

C7_Witness ==
    /\ Dispatched
    /\ Len(call.matched) = 2
    /\ SendFailed(1)
    /\ SmsFor(2) # {}
    /\ call.response.notified[1].ngo # call.response.notified[2].ngo

(***************************************************************************)
(* C8: an ingest whose extracted event type is "possible_encampment", made *)
(* while no responder is on file, answers with status warning, does not    *)
(* invoke the Dispatcher and leaves its Event stored with status new; a    *)
(* stored critical Event with status new keeps it for as long as it is     *)
(* stored.                                                                 *)
(***************************************************************************)
C8_WarningNow ==
    (Critical /\ NGO = <<>>) =>
        /\ call.response.status = "warning"
        /\ call.dispatcher = 0
        /\ call.sms = <<>>
        /\ RowsWithId(call.response.event_id) # {}
        /\ \A i \in RowsWithId(call.response.event_id) :
              /\ Event[i].status = "new"
              /\ Event[i].event_type = "possible_encampment"
              /\ matched_ids(Event[i].matched_ngos) = <<>>

C8_StaysNew ==
    \A i \in 1..Len(Event) :
        (Event[i].event_type = "possible_encampment" /\ Event[i].status = "new") =>
            \/ Event' = <<>>
            \/ (Len(Event') >= i /\ Event'[i] = Event[i])

C8_WarningNoResponders == []C8_WarningNow /\ [][C8_StaysNew]_vars

C8_Witness ==
    /\ call.op = "receive_event"
    /\ call.event_type = "motion"
    /\ Len(NGO) >= 1
    /\ \E i \in 1..Len(Event) :
          /\ i < Len(Event)
          /\ Event[i].event_type = "possible_encampment"
          /\ Event[i].status = "new"

(***************************************************************************)
(* C9: every ingest adds exactly one Event to the store, whatever its      *)
(* outcome and whatever the provider does: the rows stored before it are   *)
(* kept as they were, and no id is stored twice.                           *)
(***************************************************************************)
C9_IngestStep ==
    call'.op = "receive_event" =>
        /\ Len(Event') = Len(Event) + 1
        /\ SubSeq(Event', 1, Len(Event)) = Event
        /\ Event'[Len(Event')].id = call'.response.event_id
        /\ \A i, j \in 1..Len(Event') : Event'[i].id = Event'[j].id => i = j

C9_OneEventPerIngest == [][C9_IngestStep]_vars

C9_Witness ==
    /\ Dispatched
    /\ Len(Event) = 2
    /\ \E k \in 1..Len(call.sms) : call.sms[k].result = "error"

(***************************************************************************)
(* C10: every non-empty decoded line reaches the rate-limit decision as a  *)
(* payload, its parsed data when it parses and {raw: line} when it does    *)
(* not; no non-empty line is discarded before rate limiting.               *)
(***************************************************************************)
C10_EveryLineRateLimited ==
    \A i \in 1..Len(lines) :
        LET line == lines[i].line
        IN  strip(line.text) # "" =>
                /\ lines[i].outcome \in {"dropped", "forwarded"}
                /\ line.parsed = "no" =>
                      /\ "raw" \in DOMAIN lines[i].payload
                      /\ lines[i].payload["raw"] = strip(line.text)
                /\ line.parsed = "object" =>
                      \A k \in DOMAIN line.obj : lines[i].payload[k] = line.obj[k]

(***************************************************************************)
(* C11: the calls of the Delivery Client are, one for one and in order,    *)
(* the payloads that passed the rate limiter: a forwarded payload is       *)
(* posted exactly once whether the post succeeds or fails, and a skipped,  *)
(* failed or dropped line is never posted.                                 *)
(***************************************************************************)
Forwarded == SelectSeq(lines, LAMBDA l : l.outcome = "forwarded")

C11_OneAttemptPerForward ==
    /\ Len(posts) = Len(Forwarded)
    /\ \A k \in 1..Len(posts) : posts[k].payload = Forwarded[k].payload

\* A delivery failed, a later payload was dropped and another one forwarded.
C11_Witness ==
    /\ Len(posts) = 2
    /\ posts[1].result = "error"
    /\ \E k \in 1..Len(lines) : lines[k].outcome = "dropped"

PreferredFails == port.preferred = NoneVal \/ ~port.available

\* The prompt was shown and answered.
Answered == port.ports # <<>> /\ port.tty /\ ~port.input.raises

QuitTyped == Answered /\ port.input.text \in {<<"q">>, <<"Q">>, <<" ", "q", " ">>}

C13_ChoosePort ==
    (pc # "start" /\ PreferredFails) =>
        LET n == Len(port.ports)
            typed == port.input.text
            at(i) == port.ports[IF i < 1 THEN 1 ELSE IF i > n THEN n ELSE i]
        IN  /\ n = 0 => port.chosen = NoneVal
            /\ QuitTyped => port.chosen = NoneVal
            /\ (n > 0 /\ ~QuitTyped) => \E k \in 1..n : port.chosen = port.ports[k]
            /\ (n > 0 /\ (~port.tty \/ port.input.raises)) => port.chosen = port.ports[1]
            /\ (Answered /\ typed \in {<<>>, <<" ">>}) => port.chosen = port.ports[1]
            /\ \A i \in 0..9 : (Answered /\ typed = <<Digit(i)>>) => port.chosen = at(i)
            /\ (Answered /\ typed = <<"1", "2">>) => port.chosen = at(12)
            /\ (Answered /\ typed = <<"-", "1">>) => port.chosen = at(0 - 1)
            /\ (Answered /\ typed = <<"+", "2">>) => port.chosen = at(2)

\* With three ports enumerated, 9 was typed and the third port was returned.
C13_Witness ==
    /\ pc # "start"
    /\ PreferredFails
    /\ Answered
    /\ Len(port.ports) = 3
    /\ port.input.text = <<"9">>
    /\ port.chosen = port.ports[3]

(***************************************************************************)
(* C15: in every step of the bridge the watermark last_event_time stays    *)
(* as it is unless the step forwards a payload; a step that forwards a     *)
(* payload makes exactly one delivery call and leaves the watermark at     *)
(* that payload's timestamp_ms, whatever the delivery call does.           *)
(***************************************************************************)
C15_Step ==
    LET k == Len(lines')
        forwards == lines' # lines /\ lines'[k].outcome = "forwarded"
    IN  /\ ~forwards => (last_event_time' = last_event_time /\ posts' = posts)
        /\ forwards =>
              /\ last_event_time' = lines'[k].payload["timestamp_ms"]
              /\ Len(posts') = Len(posts) + 1
              /\ posts'[Len(posts')].payload = lines'[k].payload

C15_WatermarkOnForward == [][C15_Step]_vars

\* The last delivery failed and the watermark is at its payload's
\* timestamp; an earlier line was skipped and left the watermark alone.
C15_Witness ==
    /\ posts # <<>>
    /\ posts[Len(posts)].result = "error"
    /\ last_event_time = posts[Len(posts)].payload["timestamp_ms"]
    /\ last_event_time = 4000
    /\ \E k \in 1..Len(lines) : lines[k].outcome = "skipped"

(***************************************************************************)
(* C16: once a payload has been forwarded, no step of the bridge lowers    *)
(* the watermark last_event_time, whatever timestamps the device reports.  *)
(***************************************************************************)
C16_NeverDecreases ==
    [][posts # <<>> => last_event_time' >= last_event_time]_vars

(***************************************************************************)
(* C19: the bridge leaves its read loop only by the break of the           *)
(* KeyboardInterrupt clause, wherever in the iteration the interrupt       *)
(* arrives, and once it has left the loop no payload is posted.            *)
(***************************************************************************)
C19_Step ==
    /\ (pc = "reading" /\ pc' # "reading") => pc' = "stopped"
    /\ pc # "reading" => posts' = posts

C19_InterruptStopsCleanly == [][C19_Step]_vars

(***************************************************************************)
(* C14: a call of clear_events leaves the Event table empty whatever the   *)
(* status of its rows, answers with the number of rows the table held      *)
(* just before, and leaves the NGO table as it is; a listing made while    *)
(* the table is still empty after the clear (no event was stored since)    *)
(* returns no events.                                                      *)
(***************************************************************************)
IsClearStep ==
    /\ call'.op = "clear_events"
    /\ (call' # call \/ Event' # Event)
    /\ reqs' = reqs

IsListStep == call'.op = "list_events" /\ call' # call

C14_Step ==
    /\ IsClearStep =>
          /\ Event' = <<>>
          /\ call'.response.deleted = Len(Event)
          /\ NGO' = NGO
    /\ (IsListStep /\ call.op = "clear_events" /\ Event = <<>>) =>
          call'.response = <<>>

C14_ClearDeletesAll == [][C14_Step]_vars

\* An event that was notified and one that was not were cleared together,
\* and the listing made next is empty.
C14_Witness ==
    /\ call.op = "list_events"
    /\ call.response = <<>>
    /\ Event = <<>>
    /\ \E r \in 1..Len(reqs) : reqs[r].response = "ok"
    /\ \E r \in 1..Len(reqs) : reqs[r].response = "logged"

(***************************************************************************)
(* C17: every Event row is inserted once, with status new and no matched   *)
(* responders; it is changed at most once afterwards, from new to          *)
(* notified and by the call of receive_event that inserted it; no other    *)
(* status is ever stored; and rows leave the table only by clear_events.   *)
(***************************************************************************)
\* The row a call inserted, and the calls whose row is in a table.
RowBy(rows, r) == rows[CHOOSE k \in 1..Len(rows) : rows[k].by = r]

Owners(rows) == {rows[k].by : k \in 1..Len(rows)}

C17_Inserted ==
    \A r \in Owners(Event') \ Owners(Event) :
        /\ reqs[r].pc = "persist"
        /\ RowBy(Event', r).status = "new"
        /\ RowBy(Event', r).matched_ngos = NoneStr

C17_Changed ==
    \A r \in Owners(Event') \cap Owners(Event) :
        RowBy(Event', r) # RowBy(Event, r) =>
            /\ RowBy(Event, r).status = "new"
            /\ RowBy(Event, r).matched_ngos = NoneStr
            /\ RowBy(Event', r).status = "notified"
            /\ reqs[r].pc = "notify"
            /\ reqs'[r].pc = "done"

C17_Removed ==
    Owners(Event) \ Owners(Event') # {} =>
        (Event' = <<>> /\ call'.op = "clear_events" /\ reqs' = reqs)

C17_Stored ==
    \A k \in 1..Len(Event) :
        /\ Event[k].status \in {"new", "notified"}
        /\ \A j \in 1..Len(Event) : Event[j].by = Event[k].by => j = k

C17_EventLifecycle ==
    []C17_Stored /\ [][C17_Inserted /\ C17_Changed /\ C17_Removed]_vars

(***************************************************************************)
(* C18: within one call of receive_event the provider is asked to reach a  *)
(* responder only after the call has committed its Event, which keeps the  *)
(* status new while the call matches and dispatches; the status notified   *)
(* is stored only when the call has gone through all its matched           *)
(* responders; and a call that ends between its first commit and its       *)
(* update changes nothing in the table, so its Event stays stored with     *)
(* status new, whether or not responders were contacted already.           *)
(***************************************************************************)
Stored(r) == r \in Owners(Event)

C18_Order ==
    \A r \in 1..Len(reqs) :
        LET q == reqs[r]
        IN  /\ q.contacted # <<>> => q.ev_id # 0
            /\ (q.pc \in {"match", "notify"} /\ Stored(r)) =>
                  RowBy(Event, r).status = "new"
            /\ (Stored(r) /\ RowBy(Event, r).status = "notified") =>
                  /\ q.pc = "done"
                  /\ q.ngos # <<>>
                  /\ Len(q.contacted) = Len(q.ngos)
            /\ (q.pc = "crashed" /\ Stored(r)) => RowBy(Event, r).status = "new"

C18_CrashStep ==
    \A r \in 1..Len(reqs) :
        (reqs[r].pc # "crashed" /\ reqs'[r].pc = "crashed") => Event' = Event

C18_PersistMatchDispatchUpdate == []C18_Order /\ [][C18_CrashStep]_vars

\* A call ended after it had reached the first of its two responders: its
\* Event is stored with status new.
C18_Witness ==
    \E r \in 1..Len(reqs) :
        /\ reqs[r].pc = "crashed"
        /\ Len(reqs[r].ngos) = 2
        /\ Len(reqs[r].contacted) = 1
        /\ Stored(r)
        /\ RowBy(Event, r).status = "new"

(***************************************************************************)
(* C20: with calls of receive_event running side by side, the rows of the  *)
(* Event table carry created_at values that do not decrease in the order   *)
(* in which the rows were inserted, and the created_at of a row is the     *)
(* server time its call read, never the timestamp_ms of the request body.  *)
(***************************************************************************)
C20_CreatedAtInOrder ==
    /\ \A j \in 1..Len(Event) : \A k \in 1..Len(Event) :
          j < k => Event[j].created_at <= Event[k].created_at
    /\ \A k \in 1..Len(Event) :
          /\ Event[k].created_at = reqs[Event[k].by].timestamp
          /\ Event[k].created_at # reqs[Event[k].by].data["timestamp_ms"]

====
